---- MODULE Spec2Model ----
(***************************************************************************)
(* Model of check.py, the build-matrix runner of the repository: a for     *)
(* loop over a literal list of [target, features] pairs that prints a      *)
(* status line and calls check(target, features), which runs "cargo check" *)
(* through os.system inside a try/except that prints the exception and     *)
(* calls exit(1).                                                          *)
(***************************************************************************)
EXTENDS Naturals, Sequences, FiniteSets, TLC

\* Exit statuses an external command may return are 0..MaxExitCode.
MaxExitCode == 1

ExitCodes == 0..MaxExitCode

\* Descriptions of the exceptions os.system may raise.
Errors == {"command not found", "embedded null byte"}

\* A matrix literal with a copy-paste slip: the fifth row repeats the first.
MatrixDup ==
  << <<"wasm32-unknown-unknown", "static_ser">>,
     <<"x86_64-pc-windows-gnu", "static_ser">>,
     <<"x86_64-unknown-linux-gnu", "static_ser">>,
     <<"x86_64-apple-darwin", "static_ser">>,
     <<"wasm32-unknown-unknown", "static_ser">>,
     <<"x86_64-pc-windows-gnu", "">>,
     <<"x86_64-unknown-linux-gnu", "">>,
     <<"x86_64-apple-darwin", "">> >>

\* The list literal the for statement iterates over.
Matrix ==
  << <<"wasm32-unknown-unknown", "static_ser">>,
     <<"x86_64-pc-windows-gnu", "static_ser">>,
     <<"x86_64-unknown-linux-gnu", "static_ser">>,
     <<"x86_64-apple-darwin", "static_ser">>,
     <<"wasm32-unknown-unknown", "">>,
     <<"x86_64-pc-windows-gnu", "">>,
     <<"x86_64-unknown-linux-gnu", "">>,
     <<"x86_64-apple-darwin", "">> >>

VARIABLES
  matrix,      \* the list object being iterated
  it,          \* the list iterator's index: number of rows already fetched
  args,        \* the loop variable (<<>> before the first iteration)
  pc,          \* position of the interpreter
  stdout,      \* lines printed, each tagged with the print statement it came from
  invoked,     \* command strings handed to os.system, in order
  running,     \* number of external commands currently running
  codes,       \* values returned by os.system (discarded by the code)
  e,           \* <<description>> of the exception caught in check, else <<>>
  exitStatus   \* <<status>> once the process has exited, else <<>>

vars == <<matrix, it, args, pc, stdout, invoked, running, codes, e, exitStatus>>

\* f'checking -target={args[0]} --features={args[1]}'
StatusLine(a) == "checking -target=" \o a[1] \o " --features=" \o a[2]

\* The command with the two substitutions exchanged.
CommandSwapped(target, features) ==
  "cargo check --target=" \o features \o " --features=" \o target

\* f"cargo check --target={target} --features={features}"
Command(target, features) ==
  "cargo check --target=" \o target \o " --features=" \o features

Init ==
  /\ matrix = Matrix
  /\ it = 0
  /\ args = <<>>
  /\ pc = "for"
  /\ stdout = <<>>
  /\ invoked = <<>>
  /\ running = 0
  /\ codes = <<>>
  /\ e = <<>>
  /\ exitStatus = <<>>

\* An iteration that fetches the row but prints nothing.
LoopNextSilent ==
  /\ pc = "for"
  /\ it < Len(matrix)
  /\ it' = it + 1
  /\ args' = matrix[it + 1]
  /\ pc' = "check"
  /\ UNCHANGED <<matrix, stdout, invoked, running, codes, e, exitStatus>>

\* An iteration that consumes the list it walks (args = matrix.pop(0)).
LoopNextPop ==
  /\ pc = "for"
  /\ it < Len(matrix)
  /\ it' = it + 1
  /\ args' = matrix[1]
  /\ matrix' = Tail(matrix)
  /\ stdout' = Append(stdout, [stmt |-> "status", text |-> StatusLine(matrix[1])])
  /\ pc' = "check"
  /\ UNCHANGED <<invoked, running, codes, e, exitStatus>>

\* for args in [...]: the iterator yields the next row; print(f'checking ...').
LoopNext ==
  /\ pc = "for"
  /\ it < Len(matrix)
  /\ it' = it + 1
  /\ args' = matrix[it + 1]
  /\ stdout' = Append(stdout, [stmt |-> "status", text |-> StatusLine(matrix[it + 1])])
  /\ pc' = "check"
  /\ UNCHANGED <<matrix, invoked, running, codes, e, exitStatus>>

\* A loop that stops one row short.
LoopEndEarly ==
  /\ pc = "for"
  /\ it + 1 >= Len(matrix)
  /\ pc' = "done"
  /\ exitStatus' = <<0>>
  /\ UNCHANGED <<matrix, it, args, stdout, invoked, running, codes, e>>

\* The iterator is exhausted: the module ends and the interpreter exits with 0.
LoopEnd ==
  /\ pc = "for"
  /\ it >= Len(matrix)
  /\ pc' = "done"
  /\ exitStatus' = <<0>>
  /\ UNCHANGED <<matrix, it, args, stdout, invoked, running, codes, e>>

\* The command is started without waiting for it (a spawn instead of os.system).
InvokeAsync ==
  /\ pc = "check"
  /\ invoked' = Append(invoked, Command(args[1], args[2]))
  /\ running' = running + 1
  /\ pc' = "for"
  /\ UNCHANGED <<matrix, it, args, stdout, codes, e, exitStatus>>

\* check(args[0], args[1]) enters the try block and calls os.system(command).
Invoke ==
  /\ pc = "check"
  /\ invoked' = Append(invoked, Command(args[1], args[2]))
  /\ running' = running + 1
  /\ pc' = "system"
  /\ UNCHANGED <<matrix, it, args, stdout, codes, e, exitStatus>>

\* A return that treats a non-zero status as fatal (exit(1) on failure).
ReturnChecked(code) ==
  /\ pc = "system"
  /\ running' = running - 1
  /\ codes' = Append(codes, code)
  /\ pc' = IF code # 0 THEN "exit" ELSE "for"
  /\ UNCHANGED <<matrix, it, args, stdout, invoked, e, exitStatus>>

\* A return that leaves the loop on a non-zero status (break on failure).
ReturnBreak(code) ==
  /\ pc = "system"
  /\ running' = running - 1
  /\ codes' = Append(codes, code)
  /\ IF code # 0
       THEN pc' = "done" /\ exitStatus' = <<0>>
       ELSE pc' = "for" /\ UNCHANGED exitStatus
  /\ UNCHANGED <<matrix, it, args, stdout, invoked, e>>

\* A return that runs the same command again until it reports success.
ReturnRetry(code) ==
  /\ pc = "system"
  /\ running' = running - 1
  /\ codes' = Append(codes, code)
  /\ pc' = IF code # 0 THEN "check" ELSE "for"
  /\ UNCHANGED <<matrix, it, args, stdout, invoked, e, exitStatus>>

\* os.system returns the command's status; check drops it and returns to the loop.
Return(code) ==
  /\ pc = "system"
  /\ running' = running - 1
  /\ codes' = Append(codes, code)
  /\ pc' = "for"
  /\ UNCHANGED <<matrix, it, args, stdout, invoked, e, exitStatus>>

\* os.system raises; "except Exception as e" catches it.
Raise(err) ==
  /\ pc = "system"
  /\ running' = running - 1
  /\ e' = <<err>>
  /\ pc' = "except"
  /\ UNCHANGED <<matrix, it, args, stdout, invoked, codes, exitStatus>>

\* A handler that prints the exception and falls back into the loop (no exit).
PrintErrorContinue ==
  /\ pc = "except"
  /\ stdout' = Append(stdout, [stmt |-> "error", text |-> e[1]])
  /\ pc' = "for"
  /\ UNCHANGED <<matrix, it, args, invoked, running, codes, e, exitStatus>>

\* print(e)
PrintError ==
  /\ pc = "except"
  /\ stdout' = Append(stdout, [stmt |-> "error", text |-> e[1]])
  /\ pc' = "exit"
  /\ UNCHANGED <<matrix, it, args, invoked, running, codes, e, exitStatus>>

\* exit(1)
ExitFailure ==
  /\ pc = "exit"
  /\ pc' = "done"
  /\ exitStatus' = <<1>>
  /\ UNCHANGED <<matrix, it, args, stdout, invoked, running, codes, e>>

Next ==
  \/ LoopNext
  \/ LoopEnd
  \/ Invoke
  \/ \E code \in ExitCodes : Return(code)
  \/ \E err \in Errors : Raise(err)
  \/ PrintError
  \/ ExitFailure

Spec == Init /\ [][Next]_vars

\* The interpreter keeps executing, and every os.system call either returns or raises.
FairSpec == Spec /\ WF_vars(Next)

----
\* Helpers for the properties.

StatusLines == SelectSeq(stdout, LAMBDA l : l.stmt = "status")

ErrorLines == SelectSeq(stdout, LAMBDA l : l.stmt = "error")

Range(s) == {s[j] : j \in 1..Len(s)}

NoRepeat(s) == \A j, k \in 1..Len(s) : s[j] = s[k] => j = k

Raised == e # <<>>

Done == pc = "done"

StdoutTexts == {stdout[j].text : j \in 1..Len(stdout)}

CommandOf(row) == "cargo check --target=" \o row[1] \o " --features=" \o row[2]

Occurrences(s, x) == Cardinality({j \in 1..Len(s) : s[j] = x})

----
\* C1: if the k-th invocation raises, then at process end exactly k status
\* lines were printed, exactly k commands were invoked, exactly one error line
\* (the exception's description) was printed, the exit status is 1, and no
\* combination after the k-th has a status line or an invocation.
C1_RaiseStopsRun ==
  (Done /\ Raised) =>
    LET k == Len(codes) + 1 IN
      /\ Len(StatusLines) = k
      /\ Len(invoked) = k
      /\ Len(ErrorLines) = 1
      /\ ErrorLines[1].text = e[1]
      /\ exitStatus = <<1>>
      /\ \A j \in (k + 1)..Len(matrix) :
           /\ StatusLine(matrix[j]) \notin StdoutTexts
           /\ CommandOf(matrix[j]) \notin Range(invoked)

\* The third of eight invocations raised "command not found" and the process ended.
C1_Witness ==
  Done /\ e = <<"command not found">> /\ Len(codes) = 2 /\ Len(invoked) = 3

\* C2: without an invocation error the exit status is 0 whatever the commands
\* returned, and exit status 1 occurs only after an invocation error.
C2_ExitStatusIgnoresCodes ==
  Done => /\ (~Raised => exitStatus = <<0>>)
          /\ (exitStatus = <<1>> => Raised)

\* All eight commands returned a non-zero status and the process ended.
C2_Witness ==
  Done /\ ~Raised /\ Len(codes) = Len(Matrix) /\ \A j \in 1..Len(codes) : codes[j] # 0

\* C3: every combination reached has exactly one status line and the others
\* none; the status line is printed before that combination's command is
\* started and after the previous command has finished; the number of status
\* lines is the number of invocations or one more.
C3_StatusBeforeInvoke ==
  /\ [](/\ Len(StatusLines) \in {Len(invoked), Len(invoked) + 1}
        /\ Len(StatusLines) = it
        /\ \A j \in 1..Len(matrix) :
             Occurrences(stdout, [stmt |-> "status", text |-> StatusLine(matrix[j])])
               = IF j <= it THEN 1 ELSE 0
        /\ (Len(StatusLines) = Len(invoked) + 1 =>
              running = 0 /\ Len(codes) + Len(e) = Len(invoked)))
  /\ [][Len(invoked') > Len(invoked) =>
          /\ Len(StatusLines) = Len(invoked')
          /\ stdout' = stdout]_vars

\* The fifth status line is printed and the fifth command is not yet started.
C3_Witness ==
  Len(StatusLines) = 5 /\ Len(invoked) = 4 /\ Len(codes) = 4

\* C4: when no invocation raises, the run ends with as many invocations as the
\* matrix has entries (8), each entry invoked exactly once.
C4_AllInvokedOnce ==
  (Done /\ ~Raised) =>
    /\ Len(invoked) = Len(matrix)
    /\ Len(invoked) = 8
    /\ \A j \in 1..Len(matrix) : Occurrences(invoked, CommandOf(matrix[j])) = 1

\* The run ended without an exception, with mixed exit statuses.
C4_Witness ==
  Done /\ ~Raised /\ Len(invoked) = 8 /\ codes[1] = 0 /\ codes[8] # 0

\* C5: a non-zero status returned for combination k < 8 does not stop the
\* runner: the return leaves it at the loop head with nothing printed and no
\* exit, as a zero status does, and it goes on to print the status line of and
\* invoke combination k+1.
C5_NonZeroContinues ==
  /\ [][Len(codes') > Len(codes) =>
          pc' = "for" /\ exitStatus' = <<>> /\ stdout' = stdout /\ it' = it]_vars
  /\ \A k \in 1..(Len(Matrix) - 1) :
       (Len(codes) = k /\ codes[k] # 0 /\ pc = "for")
         ~> (/\ Len(invoked) = k + 1
             /\ invoked[k + 1] = CommandOf(Matrix[k + 1])
             /\ Len(StatusLines) = k + 1
             /\ StatusLines[k + 1].text = StatusLine(Matrix[k + 1]))

\* The third command returned non-zero and the fourth has been invoked.
C5_Witness ==
  /\ Len(codes) = 3 /\ codes[3] # 0
  /\ Len(invoked) = 4 /\ invoked[4] = CommandOf(Matrix[4])
  /\ Len(StatusLines) = 4

\* C6: at most one external command runs at a time, a command is started only
\* when all earlier ones have finished, and the invoked commands are always
\* those of a prefix of the matrix, in list order.
C6_SequentialPrefix ==
  /\ running <= 1
  /\ Len(invoked) = Len(codes) + Len(e) + running
  /\ Len(invoked) <= Len(matrix)
  /\ \A j \in 1..Len(invoked) : invoked[j] = CommandOf(matrix[j])

\* The fourth command is running after three have finished.
C6_Witness ==
  running = 1 /\ Len(invoked) = 4 /\ Len(codes) = 3 /\ pc = "system"

\* C7: if every invocation eventually returns or raises, the runner ends:
\* it reaches a final state with exit status 0 after all 8 combinations, or
\* exit status 1 after a raised invocation, never with more than 8 invocations.
C7_Terminates ==
  /\ <>(/\ Done
        /\ exitStatus \in {<<0>>, <<1>>}
        /\ (exitStatus = <<0>> => it = 8 /\ Len(codes) = 8)
        /\ (exitStatus = <<1>> => Raised))
  /\ [](Len(invoked) <= 8)

\* The run has ended after eight invocations.
C7_Witness ==
  Done /\ exitStatus = <<0>> /\ Len(invoked) = 8

\* C8: no step of the runner changes the list of combinations.
C8_MatrixUnchanged ==
  [][matrix' = matrix]_vars

\* A run that printed, invoked, handled an exception and exited, with the list intact.
C8_Witness ==
  Done /\ Raised /\ Len(invoked) = 5 /\ matrix = Matrix

\* C9: the i-th status line and the i-th command both name the i-th matrix
\* entry, the command carrying the target in --target= and the feature set in
\* --features=, in that order.
C9_SamePairNamed ==
  /\ \A j \in 1..Len(StatusLines) :
       StatusLines[j].text
         = "checking -target=" \o matrix[j][1] \o " --features=" \o matrix[j][2]
  /\ \A j \in 1..Len(invoked) :
       invoked[j]
         = "cargo check --target=" \o matrix[j][1] \o " --features=" \o matrix[j][2]

\* All eight status lines and commands have been produced.
C9_Witness ==
  Len(StatusLines) = 8 /\ Len(invoked) = 8 /\ pc = "system"

\* C10: the matrix is the Cartesian product of the 4 targets and the 2 feature
\* sets, 8 entries without a repeated pair, so no pair is invoked twice.
C10_MatrixIsProduct ==
  /\ Len(matrix) = 8
  /\ Range(matrix) =
       {"wasm32-unknown-unknown", "x86_64-pc-windows-gnu",
        "x86_64-unknown-linux-gnu", "x86_64-apple-darwin"} \X {"static_ser", ""}
  /\ NoRepeat(matrix)
  /\ NoRepeat(invoked)

\* Every combination has been invoked.
C10_Witness ==
  Done /\ Len(invoked) = 8 /\ NoRepeat(invoked) /\ Cardinality(Range(invoked)) = 8

====
